---- MODULE Spec2Model ----
(***************************************************************************)
(* The browser client of the investment calculator: src/app.js             *)
(* (InvestmentApp) and src/unnamed/part_000 (InvestmentAPI, APIUtils).     *)
(*                                                                         *)
(* JavaScript values are records [t, n, s]: t is the kind, n the numeric   *)
(* payload, s the characters of a string.  A string is a sequence of       *)
(* one-character strings, so that the scanners below can read it.  A       *)
(* finite number is kept exactly, in thousandths (Scale); the form inputs  *)
(* of the model are all exactly representable at that resolution.          *)
(***************************************************************************)
EXTENDS Integers, Sequences, FiniteSets, TLC

Scale == 10 * 10 * 10

JSNull == [t |-> "null", n |-> 0, s |-> <<>>]

JSUndefined == [t |-> "undefined", n |-> 0, s |-> <<>>]

\* A plain object, such as {}.
JSObject == [t |-> "object", n |-> 0, s |-> <<>>]

JSNaN == [t |-> "nan", n |-> 0, s |-> <<>>]

JSNum(x) == [t |-> "num", n |-> x, s |-> <<>>]

JSInf(sign) == [t |-> "inf", n |-> sign, s |-> <<>>]

JSBool(b) == [t |-> "bool", n |-> IF b THEN 1 ELSE 0, s |-> <<>>]

JSStr(chars) == [t |-> "string", n |-> 0, s |-> chars]

(***************************************************************************)
(* Characters and digit strings.                                           *)
(***************************************************************************)
DigitChars == <<"0", "1", "2", "3", "4", "5", "6", "7", "8", "9">>

HexChars == DigitChars \o <<"a", "b", "c", "d", "e", "f">>

UpperHex(c) ==
    CASE c = "A" -> "a" [] c = "B" -> "b" [] c = "C" -> "c"
      [] c = "D" -> "d" [] c = "E" -> "e" [] c = "F" -> "f" [] OTHER -> c

IsDigitIn(c, radix) == \E i \in 1..radix : HexChars[i] = UpperHex(c)

DigitVal(c) == (CHOOSE i \in 1..16 : HexChars[i] = UpperHex(c)) - 1

CharAt(str, i) == IF i >= 1 /\ i <= Len(str) THEN str[i] ELSE ""

\* The first index at or after i that holds no digit of the radix.
RECURSIVE SpanDigits(_, _, _)
SpanDigits(str, i, radix) ==
    IF i <= Len(str) /\ IsDigitIn(str[i], radix)
    THEN SpanDigits(str, i + 1, radix)
    ELSE i

\* The value of the digits str[i .. j-1] in the radix.
RECURSIVE DigitsValue(_, _, _, _)
DigitsValue(str, i, j, radix) ==
    IF j <= i THEN 0
    ELSE DigitsValue(str, i, j - 1, radix) * radix + DigitVal(str[j - 1])

RECURSIVE Pow10(_)
Pow10(e) == IF e <= 0 THEN 1 ELSE 10 * Pow10(e - 1)

IsWhiteSpace(c) == c = " "

RECURSIVE TrimLeft(_)
TrimLeft(str) ==
    IF str # <<>> /\ IsWhiteSpace(Head(str)) THEN TrimLeft(Tail(str)) ELSE str

RECURSIVE TrimRight(_)
TrimRight(str) ==
    IF str # <<>> /\ IsWhiteSpace(str[Len(str)])
    THEN TrimRight(SubSeq(str, 1, Len(str) - 1))
    ELSE str

InfinityChars == <<"I", "n", "f", "i", "n", "i", "t", "y">>

(***************************************************************************)
(* The longest prefix of str that is a StrDecimalLiteral: an optional      *)
(* sign, then Infinity or digits with an optional fraction and an optional *)
(* exponent.  end is the index after the prefix.  The scan goes left to    *)
(* right: sign, integer digits up to j, fraction up to k, exponent.        *)
(***************************************************************************)
NoDecimal == [ok |-> FALSE, end |-> 1, v |-> JSNaN]

\* digits * 10^exp10, in thousandths.
ScaledDecimal(sgn, digits, exp10) ==
    JSNum(sgn * (IF exp10 + 3 >= 0 THEN digits * Pow10(exp10 + 3)
                 ELSE digits \div Pow10(0 - (exp10 + 3))))

FracLen(j, k) == IF k > j THEN k - j - 1 ELSE 0

\* The exponent part, if str[k] is e or E and at least one digit follows.
DecimalExponent(str, sgn, digits, fracLen, k) ==
    LET p == k + 1 + (IF CharAt(str, k + 1) \in {"+", "-"} THEN 1 ELSE 0)
        eSgn == IF CharAt(str, k + 1) = "-" THEN -1 ELSE 1
    IN  IF CharAt(str, k) \in {"e", "E"} /\ SpanDigits(str, p, 10) > p
        THEN [ok |-> TRUE, end |-> SpanDigits(str, p, 10),
              v |-> ScaledDecimal(sgn, digits,
                      eSgn * DigitsValue(str, p, SpanDigits(str, p, 10), 10)
                        - fracLen)]
        ELSE [ok |-> TRUE, end |-> k, v |-> ScaledDecimal(sgn, digits, 0 - fracLen)]

\* Integer digits str[i0 .. j-1]; with a dot at j, fraction str[j+1 .. k-1].
DecimalMantissa(str, sgn, i0, j, k) ==
    IF (j - i0) + FracLen(j, k) = 0 THEN NoDecimal
    ELSE DecimalExponent(str, sgn,
            DigitsValue(str, i0, j, 10) * Pow10(FracLen(j, k))
                + DigitsValue(str, j + 1, k, 10),
            FracLen(j, k), k)

DecimalDigits(str, sgn, i0, j) ==
    DecimalMantissa(str, sgn, i0, j,
        IF CharAt(str, j) = "." THEN SpanDigits(str, j + 1, 10) ELSE j)

DecimalFrom(str, sgn, i0) ==
    IF Len(str) >= i0 + 7 /\ SubSeq(str, i0, i0 + 7) = InfinityChars
    THEN [ok |-> TRUE, end |-> i0 + 8, v |-> JSInf(sgn)]
    ELSE DecimalDigits(str, sgn, i0, SpanDigits(str, i0, 10))

StrDecimalPrefix(str) ==
    DecimalFrom(str,
        IF CharAt(str, 1) = "-" THEN -1 ELSE 1,
        IF CharAt(str, 1) \in {"+", "-"} THEN 2 ELSE 1)

\* A 0x / 0o / 0b literal: the radix, or 0 when str has no such prefix.
RadixOf(str) ==
    IF Len(str) < 2 \/ str[1] # "0" THEN 0
    ELSE CASE str[2] \in {"x", "X"} -> 16
           [] str[2] \in {"o", "O"} -> 8
           [] str[2] \in {"b", "B"} -> 2
           [] OTHER -> 0

(***************************************************************************)
(* Number(str), the conversion isNaN applies to its argument: the whole    *)
(* trimmed string must be a numeric literal; the empty string is 0.        *)
(***************************************************************************)
StringToNumber(str) ==
    LET trimmed == TrimRight(TrimLeft(str))
        radix == RadixOf(trimmed)
        dec == StrDecimalPrefix(trimmed)
    IN  IF trimmed = <<>> THEN JSNum(0)
        ELSE IF radix # 0
        THEN IF Len(trimmed) > 2 /\ SpanDigits(trimmed, 3, radix) = Len(trimmed) + 1
             THEN JSNum(DigitsValue(trimmed, 3, Len(trimmed) + 1, radix) * Scale)
             ELSE JSNaN
        ELSE IF dec.ok /\ dec.end = Len(trimmed) + 1 THEN dec.v
        ELSE JSNaN

\* parseFloat(str): leading white space skipped, then the longest decimal prefix.
parseFloat(str) == StrDecimalPrefix(TrimLeft(str)).v

ToNumber(v) ==
    CASE v.t = "null" -> JSNum(0)
      [] v.t = "bool" -> JSNum(v.n * Scale)
      [] v.t = "string" -> StringToNumber(v.s)
      [] v.t \in {"undefined", "object"} -> JSNaN
      [] OTHER -> v

isNaN(v) == ToNumber(v).t = "nan"

(***************************************************************************)
(* String(v), as the + operator and a template literal apply it.           *)
(***************************************************************************)
RECURSIVE NatToChars(_)
NatToChars(k) ==
    IF k < 10 THEN <<DigitChars[k + 1]>>
    ELSE NatToChars(k \div 10) \o <<DigitChars[(k % 10) + 1]>>

RECURSIVE FracToChars(_, _)
FracToChars(f, width) ==
    IF f = 0 THEN <<>>
    ELSE <<DigitChars[(f \div Pow10(width - 1)) + 1]>>
            \o FracToChars(f % Pow10(width - 1), width - 1)

NumberToChars(x) ==
    LET a == IF x < 0 THEN 0 - x ELSE x
        frac == FracToChars(a % Scale, 3)
    IN  (IF x < 0 THEN <<"-">> ELSE <<>>)
            \o NatToChars(a \div Scale)
            \o (IF frac = <<>> THEN <<>> ELSE <<".">> \o frac)

ToChars(v) ==
    CASE v.t = "null" -> <<"n", "u", "l", "l">>
      [] v.t = "undefined" -> <<"u", "n", "d", "e", "f", "i", "n", "e", "d">>
      [] v.t = "object" -> <<"[", "o", "b", "j", "e", "c", "t", " ",
                             "O", "b", "j", "e", "c", "t", "]">>
      [] v.t = "bool" -> IF v.n = 1 THEN <<"t", "r", "u", "e">>
                         ELSE <<"f", "a", "l", "s", "e">>
      [] v.t = "string" -> v.s
      [] v.t = "nan" -> <<"N", "a", "N">>
      [] v.t = "inf" -> (IF v.n < 0 THEN <<"-">> ELSE <<>>) \o InfinityChars
      [] OTHER -> NumberToChars(v.n)

RECURSIVE Join(_)
Join(chars) == IF chars = <<>> THEN "" ELSE Head(chars) \o Join(Tail(chars))

(***************************************************************************)
(* Arithmetic of app.js:193-194: a + b, a - b, Math.abs, a > b.            *)
(***************************************************************************)
NumAdd(a, b) ==
    IF a.t = "nan" \/ b.t = "nan" THEN JSNaN
    ELSE IF a.t = "inf" /\ b.t = "inf" THEN IF a.n = b.n THEN a ELSE JSNaN
    ELSE IF a.t = "inf" THEN a
    ELSE IF b.t = "inf" THEN b
    ELSE JSNum(a.n + b.n)

NumNeg(a) == IF a.t = "nan" THEN a ELSE [a EXCEPT !.n = 0 - a.n]

Plus(a, b) ==
    IF a.t = "string" \/ b.t = "string"
    THEN JSStr(ToChars(a) \o ToChars(b))
    ELSE NumAdd(ToNumber(a), ToNumber(b))

Minus(a, b) == NumAdd(ToNumber(a), NumNeg(ToNumber(b)))

MathAbs(a) ==
    LET x == ToNumber(a)
    IN  IF x.t = "nan" THEN x
        ELSE IF x.t = "inf" THEN JSInf(1)
        ELSE JSNum(IF x.n < 0 THEN 0 - x.n ELSE x.n)

GreaterThan(a, b) ==
    LET x == ToNumber(a)
        y == ToNumber(b)
    IN  /\ x.t # "nan" /\ y.t # "nan"
        /\ \/ x.t = "inf" /\ x.n = 1 /\ ~(y.t = "inf" /\ y.n = 1)
           \/ x.t = "num" /\ y.t = "inf" /\ y.n = -1
           \/ x.t = "num" /\ y.t = "num" /\ x.n > y.n

(***************************************************************************)
(* APIUtils.formDataToObject: one field, then the whole form.              *)
(***************************************************************************)
TrueChars == <<"t", "r", "u", "e">>

FalseChars == <<"f", "a", "l", "s", "e">>

coerceField(value) ==
    IF value = <<>> THEN JSNull
    ELSE IF ~isNaN(JSStr(value)) /\ value # <<>> THEN parseFloat(value)
    ELSE IF value = TrueChars THEN JSBool(TRUE)
    ELSE IF value = FalseChars THEN JSBool(FALSE)
    ELSE JSStr(value)

formDataToObject(formData) ==
    [key \in DOMAIN formData |-> coerceField(formData[key])]

(***************************************************************************)
(* APIUtils.formatCurrency, formatPercentage, formatNumber.  Each tests    *)
(* typeof first; a value of type number is then written with a fixed       *)
(* number of fraction digits, rounded half away from zero.                 *)
(***************************************************************************)
NAChars == <<"N", "/", "A">>

\* The symbols Intl.NumberFormat('zh-TW') writes for NaN and for Infinity,
\* in ASCII.
NaNSymbol == <<"N", "a", "N">>

InfinitySymbol == <<"o", "o">>

\* a >= 0 in thousandths, as an integer count of units of 10^-decimals.
RoundedUnits(a, decimals) ==
    (a \div Scale) * Pow10(decimals)
        + (2 * (a % Scale) * Pow10(decimals) + Scale) \div (2 * Scale)

\* f written with exactly width digits.
RECURSIVE PadDigits(_, _)
PadDigits(f, width) ==
    IF width <= 0 THEN <<>>
    ELSE <<DigitChars[((f \div Pow10(width - 1)) % 10) + 1]>>
            \o PadDigits(f, width - 1)

\* The fraction part of units, with its decimal point.
FractionChars(units, decimals) ==
    IF decimals <= 0 THEN <<>>
    ELSE <<".">> \o PadDigits(units % Pow10(decimals), decimals)

\* Digits in groups of three.
RECURSIVE GroupDigits(_)
GroupDigits(digits) ==
    IF Len(digits) <= 3 THEN digits
    ELSE GroupDigits(SubSeq(digits, 1, Len(digits) - 3)) \o <<",">>
            \o SubSeq(digits, Len(digits) - 2, Len(digits))

SignChars(v) == IF v.n < 0 THEN <<"-">> ELSE <<>>

Magnitude(v) == IF v.n < 0 THEN 0 - v.n ELSE v.n

\* Number.prototype.toFixed
toFixed(v, decimals) ==
    IF v.t # "num" THEN ToChars(v)
    ELSE SignChars(v)
            \o NatToChars(RoundedUnits(Magnitude(v), decimals) \div Pow10(decimals))
            \o FractionChars(RoundedUnits(Magnitude(v), decimals), decimals)

\* Intl.NumberFormat('zh-TW', {minimumFractionDigits, maximumFractionDigits})
\* .format, with prefix the currency symbol or nothing.
IntlFormat(v, decimals, prefix) ==
    CASE v.t = "nan" -> prefix \o NaNSymbol
      [] v.t = "inf" -> SignChars(v) \o prefix \o InfinitySymbol
      [] OTHER ->
            SignChars(v) \o prefix
                \o GroupDigits(NatToChars(
                        RoundedUnits(Magnitude(v), decimals) \div Pow10(decimals)))
                \o FractionChars(RoundedUnits(Magnitude(v), decimals), decimals)

\* The typeof test taken for a test of isNaN: whatever converts to a number
\* counts as one.
IsNumberLike(v) == ~isNaN(v)

\* typeof v === 'number'
IsNumber(v) == v.t \in {"num", "nan", "inf"}

formatCurrency(amount) ==
    IF ~IsNumber(amount) THEN NAChars
    ELSE IntlFormat(amount, 0, <<"$">>)

formatPercentage(value, decimals) ==
    IF ~IsNumber(value) THEN NAChars
    ELSE toFixed(value, decimals) \o <<"%">>

formatNumber(value, decimals) ==
    IF ~IsNumber(value) THEN NAChars
    ELSE IntlFormat(value, decimals, <<>>)

\* The formatters by name; formatCurrency takes no decimals.
Formatters == {"formatCurrency", "formatPercentage", "formatNumber"}

ApplyFormatter(fn, value, decimals) ==
    CASE fn = "formatCurrency" -> formatCurrency(value)
      [] fn = "formatPercentage" -> formatPercentage(value, decimals)
      [] fn = "formatNumber" -> formatNumber(value, decimals)

(***************************************************************************)
(* The page: five tabs, one endpoint and one result panel each.            *)
(***************************************************************************)
Tabs == {"bond", "etf", "house", "stock", "goal"}

API_BASE == "/api/v1"

\* The calculate* wrappers of InvestmentAPI: the endpoint of each tab.
Endpoint(tab) ==
    CASE tab = "bond" -> "/bond-deposit"
      [] tab = "etf" -> "/etf-investment"
      [] tab = "house" -> "/house-investment"
      [] tab = "stock" -> "/stock-simulation"
      [] tab = "goal" -> "/financial-goal"

AllocFields ==
    {"stock_allocation", "bond_allocation", "etf_allocation", "deposit_allocation"}

\* The number of form submissions in a behaviour.
MaxSubmits == 2

(***************************************************************************)
(* What the user can type into an allocation field.                        *)
(***************************************************************************)
RawValues ==
    { <<>>,
      <<"5", "0">>,
      <<"5", "0", ".", "0", "0", "4">>,
      <<"3", ".", "5">>,
      <<"t", "r", "u", "e">>,
      <<"h", "e", "l", "l", "o">>,
      <<"1", "e", "3", "a", "b", "c">>,
      <<"0", "x", "1", "0">> }

AllGoalForms == [AllocFields -> RawValues]

GoalForm(stock, bond, etf, deposit) ==
    [f \in AllocFields |->
        CASE f = "stock_allocation" -> stock
          [] f = "bond_allocation" -> bond
          [] f = "etf_allocation" -> etf
          [] f = "deposit_allocation" -> deposit]

\* The forms the user fills in under Spec: sum 100, sum 99, and text.
SampleGoalForms ==
    { GoalForm(<<"4", "0">>, <<"3", "0">>, <<"2", "0">>, <<"1", "0">>),
      GoalForm(<<"4", "0">>, <<"3", "0">>, <<"2", "0">>, <<"9">>),
      GoalForm(<<"a", "b", "c">>, <<"3", "0">>, <<"2", "0">>, <<"1", "0">>) }

(***************************************************************************)
(* What the backend can answer.                                            *)
(***************************************************************************)
ErrorStatuses ==
    { [status |-> 500, statusText |-> "Internal Server Error"],
      [status |-> 404, statusText |-> "Not Found"] }

\* The body of a non-success response: not JSON, JSON without detail, JSON
\* with a detail string (possibly empty).
ErrorBodies ==
    { [json |-> FALSE, hasDetail |-> FALSE, detail |-> ""],
      [json |-> TRUE, hasDetail |-> FALSE, detail |-> ""],
      [json |-> TRUE, hasDetail |-> TRUE, detail |-> "overloaded"],
      [json |-> TRUE, hasDetail |-> TRUE, detail |-> ""] }

NoBody == [json |-> FALSE, hasDetail |-> FALSE, detail |-> ""]

\* The JSON value of a success response: null, or an object whose chart_data
\* is absent, has no years, has an empty years array, or has years.
ChartKinds == {"absent", "noYears", "emptyYears", "years"}

ResultValues(tab) ==
    {[isNull |-> TRUE, chart |-> "absent"]}
        \cup {[isNull |-> FALSE, chart |-> k] :
                k \in IF tab = "goal" THEN ChartKinds ELSE {"absent"}}

NoResult == [isNull |-> TRUE, chart |-> "absent"]

TransportMessage == "Failed to fetch"

SyntaxErrorMessage == "Unexpected token < in JSON at position 0"

TypeErrorMessage == "Cannot read properties of null"

\* part_000:28, the fallback of the template literal.
HttpMessage(status, statusText) ==
    "HTTP " \o ToString(status) \o ": " \o statusText

\* ErrorMessage with the detail of the body never looked at.
ErrorMessageWithoutDetail(status, statusText, body) ==
    HttpMessage(status, statusText)

\* part_000:28: errorData?.detail || `HTTP ...`; errorData is null when the
\* body is not JSON, and an empty detail is falsy.
ErrorMessage(status, statusText, body) ==
    IF body.json /\ body.hasDetail /\ body.detail # ""
    THEN body.detail
    ELSE HttpMessage(status, statusText)

\* app.js:195: the message of the validation error, `...${total}%`, with the
\* fixed part of the text written in ASCII.
ValidationMessage(total) ==
    "allocation total must be 100%, currently " \o Join(ToChars(total)) \o "%"

(***************************************************************************)
(* State.                                                                  *)
(***************************************************************************)
VARIABLES
    currentTab,     \* this.currentTab
    btnActive,      \* the tab buttons whose classList holds 'active'
    contentActive,  \* the tab contents whose classList holds 'active'
    result,         \* the result container of each tab: innerHTML and 'show'
    loadingShown,   \* the 'show' class of the global loading element
    goalForm,       \* the values of the goal form's allocation inputs
    nsub,           \* the number of handler invocations so far
    calls,          \* the handler invocations suspended at an await
    requests,       \* the HTTP requests handed to fetch, in order
    log,            \* the console.error entries, in order
    chartSlot,      \* this.charts.goal: the call whose series it draws, or 0
    liveCharts,     \* the Chart instances created and not destroyed
    canvasShown,    \* the goal-chart canvas has display: block
    formatted       \* a formatter call: its name, arguments and return value

vars ==
    <<currentTab, btnActive, contentActive, result, loadingShown, goalForm,
      nsub, calls, requests, log, chartSlot, liveCharts, canvasShown,
      formatted>>

EmptyPanel == [kind |-> "empty", msg |-> "", call |-> 0, show |-> FALSE]

\* clearResult clearing every result container, not the named one alone.
clearEveryResult(panels, tab) == [t \in DOMAIN panels |-> EmptyPanel]

\* clearResult leaving the container as it is.
clearNoResult(panels, tab) == panels

\* APIUtils.clearResult
clearResult(panels, tab) == [panels EXCEPT ![tab] = EmptyPanel]

\* APIUtils.showError
showError(panels, tab, message, id) ==
    [panels EXCEPT ![tab] =
        [kind |-> "error", msg |-> message, call |-> id, show |-> TRUE]]

\* display*Result: the tab's template filled from the result of call id.
displayResult(panels, tab, id) ==
    [panels EXCEPT ![tab] =
        [kind |-> "result", msg |-> "", call |-> id, show |-> TRUE]]

\* The markup the page can start with: index.html is not part of the
\* sources, so the initial 'active' classes are not known.
InitialMarkup == {{}, {"bond"}}

InitCommon ==
    /\ currentTab = "bond"
    /\ btnActive \in InitialMarkup
    /\ contentActive = btnActive
    /\ result = [t \in Tabs |-> EmptyPanel]
    /\ loadingShown = FALSE
    /\ nsub = 0
    /\ calls = {}
    /\ requests = <<>>
    /\ log = <<>>
    /\ chartSlot = 0
    /\ liveCharts = {}
    /\ canvasShown = FALSE

BlankForm == [f \in AllocFields |-> <<>>]

\* No formatter has been called.
NoFormat == [fn |-> "none", value |-> JSUndefined, decimals |-> 0, out |-> <<>>]

Init == InitCommon /\ goalForm = BlankForm /\ formatted = NoFormat

\* The form is drawn once and submitted as it stands.
InitForms == InitCommon /\ goalForm \in AllGoalForms /\ formatted = NoFormat

\* A continuation of an async function is queued: it runs before any other
\* event is handled.
MicrotaskPending == \E c \in calls : c.phase \in {"resolved", "rejected"}

\* ClickTab without the two loops that remove 'active' from every element.
ClickTabKeepingActive(tabId) ==
    /\ ~MicrotaskPending
    /\ btnActive' = btnActive \cup {tabId}
    /\ contentActive' = contentActive \cup {tabId}
    /\ currentTab' = tabId
    /\ result' = clearResult(result, tabId)
    /\ UNCHANGED <<formatted, loadingShown, goalForm, nsub, calls, requests, log,
                   chartSlot, liveCharts, canvasShown>>

(***************************************************************************)
(* setupTabs: the click listener of the button of tab tabId.               *)
(***************************************************************************)
ClickTab(tabId) ==
    /\ ~MicrotaskPending
    /\ btnActive' = {tabId}
    /\ contentActive' = {tabId}
    /\ currentTab' = tabId
    /\ result' = clearResult(result, tabId)
    /\ UNCHANGED <<formatted, loadingShown, goalForm, nsub, calls, requests, log,
                   chartSlot, liveCharts, canvasShown>>

(***************************************************************************)
(* InvestmentAPI.call up to its first await: the request handed to fetch.  *)
(***************************************************************************)
NewRequest(id, endpoint, data, method) ==
    [call |-> id, url |-> API_BASE \o endpoint, method |-> method,
     hasBody |-> method # "GET"]

NewCall(id, tab, data) ==
    [id |-> id, tab |-> tab, phase |-> "fetch", data |-> data,
     ok |-> FALSE, status |-> 0, statusText |-> "", body |-> NoBody,
     msg |-> "", res |-> NoResult]

\* The four handlers without validation, up to the await of the API call.
\* checked is the state of the bond form's is_compound checkbox.
SubmitForm(tab, checked) ==
    LET id == nsub + 1
        fields == formDataToObject([f \in {} |-> <<>>])
        data == IF tab = "bond"
                THEN [f \in {"is_compound"} |-> JSBool(checked)]
                ELSE fields
    IN  /\ ~MicrotaskPending
        /\ nsub < MaxSubmits
        /\ tab # "goal"
        /\ tab = "bond" \/ checked = FALSE
        /\ nsub' = id
        /\ loadingShown' = TRUE
        /\ requests' = Append(requests, NewRequest(id, Endpoint(tab), data, "POST"))
        /\ calls' = calls \cup {NewCall(id, tab, data)}
        /\ UNCHANGED <<formatted, currentTab, btnActive, contentActive, result, goalForm,
                       log, chartSlot, liveCharts, canvasShown>>

\* app.js:193
allocationTotal(data) ==
    Plus(Plus(Plus(data["stock_allocation"], data["bond_allocation"]),
              data["etf_allocation"]),
         data["deposit_allocation"])

\* app.js:194
allocationInvalid(total) ==
    GreaterThan(MathAbs(Minus(total, JSNum(100 * Scale))), JSNum(Scale \div 100))

\* The user leaves the allocation inputs holding form and submits:
\* handleGoalCalculation up to the await, or through its catch and finally
\* when the validation throws.
SubmitGoal(form) ==
    LET id == nsub + 1
        data == formDataToObject(form)
        total == allocationTotal(data)
    IN  /\ ~MicrotaskPending
        /\ nsub < MaxSubmits
        /\ nsub' = id
        /\ goalForm' = form
        /\ IF allocationInvalid(total)
           THEN /\ result' = showError(result, "goal", ValidationMessage(total), id)
                /\ loadingShown' = FALSE
                /\ UNCHANGED <<requests, calls>>
           ELSE /\ loadingShown' = TRUE
                /\ requests' =
                     Append(requests, NewRequest(id, Endpoint("goal"), data, "POST"))
                /\ calls' = calls \cup {NewCall(id, "goal", data)}
                /\ UNCHANGED result
        /\ UNCHANGED <<formatted, currentTab, btnActive, contentActive, log,
                       chartSlot, liveCharts, canvasShown>>

(***************************************************************************)
(* InvestmentAPI.call after its awaits.                                    *)
(***************************************************************************)
\* part_000:32-35: the catch of call logs the error and throws it again.
Rejected(c, message) == [c EXCEPT !.phase = "rejected", !.msg = message]

LogEntry(c, message) ==
    [endpoint |-> Endpoint(c.tab), msg |-> message, call |-> c.id]

\* FetchFails with the catch of call throwing the error on without logging it.
FetchFailsUnlogged(c) ==
    /\ ~MicrotaskPending
    /\ c.phase = "fetch"
    /\ calls' = (calls \ {c}) \cup {Rejected(c, TransportMessage)}
    /\ UNCHANGED <<formatted, currentTab, btnActive, contentActive, result, loadingShown,
                   goalForm, nsub, requests, log, chartSlot, liveCharts,
                   canvasShown>>

\* fetch rejects: a transport failure.
FetchFails(c) ==
    /\ ~MicrotaskPending
    /\ c.phase = "fetch"
    /\ calls' = (calls \ {c}) \cup {Rejected(c, TransportMessage)}
    /\ log' = Append(log, LogEntry(c, TransportMessage))
    /\ UNCHANGED <<formatted, currentTab, btnActive, contentActive, result, loadingShown,
                   goalForm, nsub, requests, chartSlot, liveCharts, canvasShown>>

\* fetch resolves: call goes on to await response.json(), on either branch.
FetchResponds(c, ok, st) ==
    /\ ~MicrotaskPending
    /\ c.phase = "fetch"
    /\ calls' = (calls \ {c}) \cup
            {[c EXCEPT !.phase = "body", !.ok = ok,
                       !.status = IF ok THEN 200 ELSE st.status,
                       !.statusText = IF ok THEN "OK" ELSE st.statusText]}
    /\ UNCHANGED <<formatted, currentTab, btnActive, contentActive, result, loadingShown,
                   goalForm, nsub, requests, log, chartSlot, liveCharts,
                   canvasShown>>

\* part_000:26-29: the body of a non-success response has been read.
ErrorBodyRead(c, body) ==
    LET message == ErrorMessage(c.status, c.statusText, body)
    IN  /\ ~MicrotaskPending
        /\ c.phase = "body" /\ ~c.ok
        /\ calls' = (calls \ {c}) \cup {[Rejected(c, message) EXCEPT !.body = body]}
        /\ log' = Append(log, LogEntry(c, message))
        /\ UNCHANGED <<formatted, currentTab, btnActive, contentActive, result,
                       loadingShown, goalForm, nsub, requests, chartSlot,
                       liveCharts, canvasShown>>

\* part_000:31: the body of a success response parsed as JSON.
BodyParsed(c, value) ==
    /\ ~MicrotaskPending
    /\ c.phase = "body" /\ c.ok
    /\ calls' = (calls \ {c}) \cup {[c EXCEPT !.phase = "resolved", !.res = value]}
    /\ UNCHANGED <<formatted, currentTab, btnActive, contentActive, result, loadingShown,
                   goalForm, nsub, requests, log, chartSlot, liveCharts,
                   canvasShown>>

\* part_000:31: the body of a success response is not JSON.
BodyUnparsable(c) ==
    /\ ~MicrotaskPending
    /\ c.phase = "body" /\ c.ok
    /\ calls' = (calls \ {c}) \cup {Rejected(c, SyntaxErrorMessage)}
    /\ log' = Append(log, LogEntry(c, SyntaxErrorMessage))
    /\ UNCHANGED <<formatted, currentTab, btnActive, contentActive, result, loadingShown,
                   goalForm, nsub, requests, chartSlot, liveCharts, canvasShown>>

(***************************************************************************)
(* The handlers after the await.                                           *)
(***************************************************************************)
\* displayGoalResult:510: chart_data and chart_data.years are both truthy.
drawsChart(res) == res.chart \in {"emptyYears", "years"}

\* HandlerRenders with a generation check: the response of a call that a
\* later submission has superseded is dropped.
HandlerRendersIfLatest(c) ==
    /\ c.phase = "resolved"
    /\ calls' = calls \ {c}
    /\ result' = IF c.id < nsub THEN result
                 ELSE IF c.res.isNull
                 THEN showError(result, c.tab, TypeErrorMessage, c.id)
                 ELSE displayResult(result, c.tab, c.id)
    /\ IF c.id = nsub /\ c.tab = "goal" /\ ~c.res.isNull /\ drawsChart(c.res)
       THEN /\ canvasShown' = TRUE
            /\ liveCharts' = (liveCharts \ {chartSlot}) \cup {c.id}
            /\ chartSlot' = c.id
       ELSE UNCHANGED <<chartSlot, liveCharts, canvasShown>>
    /\ loadingShown' = FALSE
    /\ UNCHANGED <<formatted, currentTab, btnActive, contentActive, goalForm, nsub,
                   requests, log>>

\* HandlerRenders with drawGoalChart overwriting the slot without destroying
\* the chart it holds.
HandlerRendersOverwritingChart(c) ==
    /\ c.phase = "resolved"
    /\ calls' = calls \ {c}
    /\ result' = IF c.res.isNull
                 THEN showError(result, c.tab, TypeErrorMessage, c.id)
                 ELSE displayResult(result, c.tab, c.id)
    /\ IF c.tab = "goal" /\ ~c.res.isNull /\ drawsChart(c.res)
       THEN /\ canvasShown' = TRUE
            /\ liveCharts' = liveCharts \cup {c.id}
            /\ chartSlot' = c.id
       ELSE UNCHANGED <<chartSlot, liveCharts, canvasShown>>
    /\ loadingShown' = FALSE
    /\ UNCHANGED <<formatted, currentTab, btnActive, contentActive, goalForm,
                   nsub, requests, log>>

\* The try block resumes with the result: display*Result, then finally.
HandlerRenders(c) ==
    /\ c.phase = "resolved"
    /\ calls' = calls \ {c}
    /\ result' = IF c.res.isNull
                 THEN showError(result, c.tab, TypeErrorMessage, c.id)
                 ELSE displayResult(result, c.tab, c.id)
    /\ IF c.tab = "goal" /\ ~c.res.isNull /\ drawsChart(c.res)
       THEN \* drawGoalChart
            /\ canvasShown' = TRUE
            /\ liveCharts' = (liveCharts \ {chartSlot}) \cup {c.id}
            /\ chartSlot' = c.id
       ELSE UNCHANGED <<chartSlot, liveCharts, canvasShown>>
    /\ loadingShown' = FALSE
    /\ UNCHANGED <<formatted, currentTab, btnActive, contentActive, goalForm, nsub,
                   requests, log>>

\* HandlerCatches without the finally block.
HandlerCatchesLoadingLeft(c) ==
    /\ c.phase = "rejected"
    /\ calls' = calls \ {c}
    /\ result' = showError(result, c.tab, c.msg, c.id)
    /\ UNCHANGED <<formatted, currentTab, btnActive, contentActive, loadingShown, goalForm,
                   nsub, requests, log, chartSlot, liveCharts, canvasShown>>

\* HandlerCatches sending the request once more before it gives up.
HandlerCatchesRetrying(c) ==
    /\ c.phase = "rejected"
    /\ calls' = calls \ {c}
    /\ result' = showError(result, c.tab, c.msg, c.id)
    /\ loadingShown' = FALSE
    /\ requests' = Append(requests, NewRequest(c.id, Endpoint(c.tab), c.data, "POST"))
    /\ UNCHANGED <<formatted, currentTab, btnActive, contentActive, goalForm, nsub,
                   log, chartSlot, liveCharts, canvasShown>>

\* The catch block of the handler, then finally.
HandlerCatches(c) ==
    /\ c.phase = "rejected"
    /\ calls' = calls \ {c}
    /\ result' = showError(result, c.tab, c.msg, c.id)
    /\ loadingShown' = FALSE
    /\ UNCHANGED <<formatted, currentTab, btnActive, contentActive, goalForm, nsub,
                   requests, log, chartSlot, liveCharts, canvasShown>>

Next ==
    \/ \E tabId \in Tabs : ClickTab(tabId)
    \/ \E tab \in Tabs, checked \in BOOLEAN : SubmitForm(tab, checked)
    \/ \E form \in SampleGoalForms : SubmitGoal(form)
    \/ \E c \in calls : FetchFails(c)
    \/ \E c \in calls, ok \in BOOLEAN, st \in ErrorStatuses : FetchResponds(c, ok, st)
    \/ \E c \in calls, body \in ErrorBodies : ErrorBodyRead(c, body)
    \/ \E c \in calls : \E value \in ResultValues(c.tab) : BodyParsed(c, value)
    \/ \E c \in calls : BodyUnparsable(c)
    \/ \E c \in calls : HandlerRenders(c)
    \/ \E c \in calls : HandlerCatches(c)

Spec == Init /\ [][Next]_vars

\* The goal tab alone, over every form the allocation inputs can hold, with
\* a backend that cannot be reached.
NextForms ==
    \/ SubmitGoal(goalForm)
    \/ \E c \in calls : FetchFails(c)
    \/ \E c \in calls : HandlerCatches(c)

SpecForms == InitForms /\ [][NextForms]_vars

(***************************************************************************)
(* The formatters alone, as the display*Result templates call them on the  *)
(* fields of a result: the backend decides what a field holds.             *)
(***************************************************************************)
\* The largest number of fraction digits a call asks for; the defaults of
\* formatPercentage and formatNumber are 2 and 0.
MaxDecimals == 2

\* Finite numbers, in thousandths: 0, 1234567, 12.345, 1234.5, 0.5, 0.005,
\* 999.999, 1000, and negatives.
FormatNumbers ==
    { 0, 1234567 * Scale, 12345, 1234500, 500, 5, 999999, 1000 * Scale,
      0 - Scale, 0 - 1234567 * Scale, 0 - 500, 0 - 1 }

FormatInputs ==
    {JSUndefined, JSNull, JSObject, JSBool(TRUE), JSBool(FALSE)}
        \cup {JSStr(chars) : chars \in RawValues}
        \cup {JSNaN, JSInf(1), JSInf(-1)}
        \cup {JSNum(x) : x \in FormatNumbers}

InitFormat ==
    /\ InitCommon
    /\ goalForm = BlankForm
    /\ \E value \in FormatInputs : formatted = [NoFormat EXCEPT !.value = value]

\* A template calls fn on the field.
Format(fn, decimals) ==
    /\ fn = "formatCurrency" => decimals = 0
    /\ formatted' = [formatted EXCEPT
                        !.fn = fn, !.decimals = decimals,
                        !.out = ApplyFormatter(fn, formatted.value, decimals)]
    /\ UNCHANGED <<currentTab, btnActive, contentActive, result, loadingShown,
                   goalForm, nsub, calls, requests, log, chartSlot, liveCharts,
                   canvasShown>>

NextFormat == \E fn \in Formatters, decimals \in 0..MaxDecimals : Format(fn, decimals)

SpecFormat == InitFormat /\ [][NextFormat]_vars

(***************************************************************************)
(* Steps, as the properties below recognise them.                          *)
(***************************************************************************)
\* A step of a click listener: the only steps that are neither a submission
\* nor a step of a handler invocation.
TabClicked == nsub' = nsub /\ calls' = calls

\* A submission of the goal form.
GoalSubmitted == nsub' = nsub + 1 /\ \A c \in calls' : c.id = nsub' => c.tab = "goal"

\* A goal submission that threw before the API call.
ValidationFailed == nsub' = nsub + 1 /\ calls' = calls

\* The handler of c runs its last step.
Completes(c) == c.phase \in {"resolved", "rejected"} /\ c \notin calls'

RequestsOf(id) == {i \in DOMAIN requests : requests[i].call = id}

LoggedIn(entries, c) ==
    \E i \in DOMAIN entries :
        /\ entries[i].endpoint = Endpoint(c.tab)
        /\ entries[i].call = c.id
        /\ entries[i].msg = c.msg

(***************************************************************************)
(* C1.  Every submission of the goal form calls the API if and only if the *)
(* sum of the four allocation fields is a number within 0.01 of 100;       *)
(* otherwise the goal panel shows a validation error and no request is     *)
(* issued.                                                                 *)
(***************************************************************************)
SumWithinTolerance(form) ==
    LET total == allocationTotal(formDataToObject(form))
    IN  /\ total.t = "num"
        /\ total.n - 100 * Scale <= Scale \div 100
        /\ 100 * Scale - total.n <= Scale \div 100

C1_ApiCalledIffSumWithinTolerance ==
    [][GoalSubmitted =>
        /\ (Len(requests') = Len(requests) + 1) <=> SumWithinTolerance(goalForm')
        /\ Len(requests') = Len(requests) + 1 \/
             /\ requests' = requests
             /\ result'["goal"].kind = "error"
             /\ result'["goal"].call = nsub']_vars

(***************************************************************************)
(* C2.  On a non-success status the message shown in the submitting tab's  *)
(* panel is the detail string of a JSON body that carries one, and         *)
(* "HTTP <status>: <statusText>" when the body is not JSON.                *)
(***************************************************************************)
HttpFailure(c) == c.phase = "rejected" /\ ~c.ok /\ c.status # 0

\* C2 as stated: any detail string, the empty one included, is shown as it is.
C2_DetailShownWhenever ==
    [][\A c \in calls : HttpFailure(c) /\ Completes(c) =>
        /\ result'[c.tab].kind = "error"
        /\ c.body.json /\ c.body.hasDetail => result'[c.tab].msg = c.body.detail
        /\ ~c.body.json =>
             result'[c.tab].msg = HttpMessage(c.status, c.statusText)]_vars

\* C2 as amended: a non-empty detail string is shown as it is; a body that is
\* not JSON, or whose detail string is empty, gives "HTTP <status>: <statusText>".
C2_NonEmptyDetailShown ==
    [][\A c \in calls : HttpFailure(c) /\ Completes(c) =>
        /\ result'[c.tab].kind = "error"
        /\ c.body.json /\ c.body.hasDetail /\ c.body.detail # "" =>
             result'[c.tab].msg = c.body.detail
        /\ ~c.body.json \/ (c.body.hasDetail /\ c.body.detail = "") =>
             result'[c.tab].msg = HttpMessage(c.status, c.statusText)]_vars

\* One panel shows a detail, another the fallback of a 500.
C2_Witness ==
    \E t1, t2 \in Tabs :
        /\ result[t1].kind = "error" /\ result[t1].msg = "overloaded"
        /\ result[t2].kind = "error"
        /\ result[t2].msg = "HTTP 500: Internal Server Error"

(***************************************************************************)
(* C3.  A click that switches the active tab from P to T leaves the result *)
(* panel of P cleared.                                                     *)
(***************************************************************************)
\* C3 as stated.
C3_PreviousPanelCleared ==
    [][TabClicked /\ currentTab' # currentTab =>
        result'[currentTab] = EmptyPanel]_vars

\* C3 as amended: the click leaves the result panel of P as it was; the
\* panel it clears is the one of T.
C3_PreviousPanelKept ==
    [][TabClicked /\ currentTab' # currentTab =>
        result'[currentTab] = result[currentTab]]_vars

\* The bond tab was left and its panel still holds what a response put there.
C3_Witness ==
    /\ currentTab # "bond"
    /\ btnActive = {currentTab}
    /\ result["bond"].kind = "result"
    /\ result["bond"].show

(***************************************************************************)
(* C4.  A click that makes tab T active leaves the result panel of T       *)
(* unchanged.                                                              *)
(***************************************************************************)
\* C4 as stated.
C4_NewPanelUnchanged ==
    [][TabClicked => result'[currentTab'] = result[currentTab']]_vars

\* C4 as amended: the click clears the result panel of T, empty and not
\* shown, whatever it held.
C4_NewPanelCleared ==
    [][TabClicked => result'[currentTab'] = EmptyPanel]_vars

\* A call of the active tab has completed, which filled the panel, and the
\* panel of the active tab is empty: a click on the tab has cleared it.
C4_Witness ==
    /\ btnActive = {currentTab}
    /\ result[currentTab] = EmptyPanel
    /\ \E i \in DOMAIN requests :
        /\ requests[i].url = API_BASE \o Endpoint(currentTab)
        /\ \A c \in calls : c.id # requests[i].call

(***************************************************************************)
(* C5.  After any tab click, exactly one tab content and exactly one tab   *)
(* button carry 'active', and the content is the one currentTab names,     *)
(* whatever submissions and responses come in between.                     *)
(***************************************************************************)
OneTabActive ==
    /\ Cardinality(btnActive) = 1
    /\ Cardinality(contentActive) = 1
    /\ contentActive = {currentTab}

C5_OneTabActiveAfterClick ==
    [][TabClicked \/ OneTabActive => OneTabActive']_vars

\* A tab was clicked, and a response has been rendered since.
C5_Witness ==
    /\ OneTabActive
    /\ currentTab # "bond"
    /\ calls # {}
    /\ \E t \in Tabs : result[t].kind = "result"

(***************************************************************************)
(* C6.  A submission whose call settles, or whose validation fails, ends   *)
(* with the result or the error message in the panel of its tab, then the  *)
(* loading indicator hidden, and nothing of the invocation left behind.    *)
(***************************************************************************)
C6_EveryHandlerEndsRenderedOrError ==
    [][/\ \A c \in calls : Completes(c) =>
            /\ result'[c.tab].call = c.id
            /\ result'[c.tab].show
            /\ result'[c.tab].kind \in {"result", "error"}
            /\ c.phase = "rejected" =>
                 result'[c.tab].kind = "error" /\ result'[c.tab].msg = c.msg
            /\ c.phase = "resolved" /\ ~c.res.isNull =>
                 result'[c.tab].kind = "result"
            /\ ~loadingShown'
            /\ \A d \in calls' : d.id # c.id
       /\ ValidationFailed =>
            /\ result'["goal"].kind = "error"
            /\ result'["goal"].call = nsub'
            /\ result'["goal"].show
            /\ ~loadingShown']_vars

\* Both outcomes are on the page and no handler is running.
C6_Witness ==
    /\ calls = {}
    /\ ~loadingShown
    /\ \E t1, t2 \in Tabs :
        /\ result[t1].kind = "result"
        /\ result[t2].kind = "error" /\ result[t2].msg = TransportMessage

(***************************************************************************)
(* C7.  A submission that reaches the API issues exactly one request, a    *)
(* POST to the endpoint of its tab, and no second one whatever the outcome.*)
(***************************************************************************)
C7_OneRequestPerSubmission ==
    /\ \A c \in calls :
        /\ Cardinality(RequestsOf(c.id)) = 1
        /\ \A i \in RequestsOf(c.id) :
            /\ requests[i].url = API_BASE \o Endpoint(c.tab)
            /\ requests[i].method = "POST"
    /\ \A id \in 1..nsub : Cardinality(RequestsOf(id)) <= 1
    /\ \A t \in Tabs : \A i \in RequestsOf(result[t].call) :
        /\ requests[i].url = API_BASE \o Endpoint(t)
        /\ requests[i].method = "POST"
    /\ \A t \in Tabs :
        result[t].kind = "result" => Cardinality(RequestsOf(result[t].call)) = 1

\* Two submissions have ended, one of them in a transport failure.
C7_Witness ==
    /\ calls = {}
    /\ Len(requests) = 2
    /\ \E t1, t2 \in Tabs :
        /\ result[t1].msg = TransportMessage
        /\ result[t2].kind = "result"

(***************************************************************************)
(* C8.  Every failure of an API call is in the log, with the endpoint of   *)
(* the call, before the error reaches the handler and so before a panel    *)
(* shows it; a validation failure of the goal tab writes no log entry.     *)
(***************************************************************************)
C8_FailureLoggedBeforeShown ==
    [][/\ \A c \in calls' : c.phase = "rejected" => LoggedIn(log', c)
       /\ \A c \in calls : c.phase = "rejected" /\ Completes(c) =>
            /\ LoggedIn(log, c)
            /\ result'[c.tab].msg = c.msg
            /\ log' = log
       /\ ValidationFailed =>
            /\ log' = log
            /\ result'["goal"].kind = "error"]_vars

\* A validation error is shown with nothing logged for it, and the error
\* of a failed call is logged and about to reach its handler.
C8_Witness ==
    /\ result["goal"].kind = "error"
    /\ RequestsOf(result["goal"].call) = {}
    /\ Len(log) = 1
    /\ \E c \in calls : c.phase = "rejected" /\ LoggedIn(log, c)

(***************************************************************************)
(* C9.  No call is cancelled or dropped by a later submission, and the     *)
(* response that arrives last is the one the panel shows, also when it     *)
(* answers the earlier of two submissions of the same tab.                 *)
(***************************************************************************)
C9_LastResponseWins ==
    [][/\ \A c \in calls : c \notin calls' =>
            \/ \E d \in calls' : d.id = c.id /\ d.tab = c.tab
            \/ /\ Completes(c)
               /\ result'[c.tab].call = c.id
               /\ result'[c.tab].show
       /\ Cardinality({c.id : c \in calls}) - 1 <= Cardinality({c.id : c \in calls'})]_vars

\* The same tab was submitted twice, both calls have ended, and the panel
\* shows the outcome of the first submission.
C9_Witness ==
    /\ calls = {}
    /\ Len(requests) = 2
    /\ requests[1].url = requests[2].url
    /\ \E t \in Tabs :
        /\ requests[1].url = API_BASE \o Endpoint(t)
        /\ result[t].call = requests[1].call
        /\ result[t].kind = "result"

(***************************************************************************)
(* C10.  formDataToObject maps a field by the first rule that matches: the *)
(* empty string to null, a string that is a float literal to that float,   *)
(* "true" and "false" to the boolean, anything else to the string; and a   *)
(* value of the numeric rule is the number the string denotes.             *)
(***************************************************************************)
IsFloatLiteral(value) ==
    StrDecimalPrefix(value).ok /\ StrDecimalPrefix(value).end = Len(value) + 1

ClaimedCoercion(value) ==
    IF value = <<>> THEN JSNull
    ELSE IF IsFloatLiteral(value) THEN StrDecimalPrefix(value).v
    ELSE IF value = TrueChars THEN JSBool(TRUE)
    ELSE IF value = FalseChars THEN JSBool(FALSE)
    ELSE JSStr(value)

C10_FieldsCoercedByFirstRule ==
    [][GoalSubmitted =>
        \A c \in calls' : c.id = nsub' =>
            \A f \in AllocFields :
                /\ c.data[f] = ClaimedCoercion(goalForm'[f])
                /\ IsNumber(c.data[f]) => c.data[f] = StringToNumber(goalForm'[f])]_vars

(***************************************************************************)
(* C11: whenever a formatter has been called on a value that is undefined, *)
(* null, a string, a boolean or an object, it returned "N/A"; whenever it  *)
(* has been called on a value of type number, it returned something else.  *)
(***************************************************************************)
NonNumericKinds == {"undefined", "null", "string", "bool", "object"}

C11_NAExactlyForNonNumbers ==
    formatted.fn # "none" =>
        (formatted.out = NAChars <=> formatted.value.t \in NonNumericKinds)

\* formatPercentage has been called on the numeric-looking string "3.5".
C11_Witness ==
    /\ formatted.fn = "formatPercentage"
    /\ formatted.value = JSStr(<<"3", ".", "5">>)
    /\ formatted.out = NAChars

(***************************************************************************)
(* C12: in every state at most one goal chart is live, and a live chart is *)
(* the one the chart slot refers to; a slot that refers to a chart refers  *)
(* to a live one.                                                          *)
(***************************************************************************)
C12_OnlyTheSlotsChartIsLive ==
    /\ Cardinality(liveCharts) <= 1
    /\ liveCharts = IF chartSlot = 0 THEN {} ELSE {chartSlot}

\* Two goal submissions have both been answered, the second one rendered
\* last with a chart.
C12_Witness ==
    /\ nsub = 2 /\ calls = {} /\ log = <<>>
    /\ \A i \in DOMAIN requests : requests[i].url = API_BASE \o Endpoint("goal")
    /\ Len(requests) = 2
    /\ result["goal"].kind = "result" /\ result["goal"].call = 2
    /\ chartSlot = 2 /\ liveCharts = {2}

(***************************************************************************)
(* C13: when the handler of a goal call renders its result R into the goal *)
(* panel, every chart live afterwards is built from the series of R.       *)
(***************************************************************************)
C13_RenderLeavesNoEarlierChart ==
    [][\A c \in calls :
        (Completes(c) /\ c.phase = "resolved" /\ c.tab = "goal" /\ ~c.res.isNull)
            => liveCharts' \subseteq {c.id}]_vars

(***************************************************************************)
(* C14: the handler of a call that got a result draws a chart exactly when *)
(* the call is a goal call and the result carries chart_data whose years   *)
(* series is present and not empty.                                        *)
(***************************************************************************)
C14_ChartDrawnIffSeriesNonEmpty ==
    [][\A c \in calls :
        (Completes(c) /\ c.phase = "resolved")
            => (c.id \in liveCharts'
                    <=> (c.tab = "goal" /\ ~c.res.isNull /\ c.res.chart = "years"))]_vars

(***************************************************************************)
(* C15: in every state in which an API call is outstanding (its handler is *)
(* suspended, the response not yet delivered), the loading indicator is    *)
(* shown.                                                                  *)
(***************************************************************************)
Outstanding == {c \in calls : c.phase \in {"fetch", "body"}}

C15_LoadingShownWhileOutstanding == Outstanding # {} => loadingShown

====
